---------------------------- MODULE Spec2Model ----------------------------
(***************************************************************************)
(* CHIP-8 virtual machine of JoshCooperr/chip8.                            *)
(*                                                                         *)
(* The primary VM (the one with the [64][32]byte pixel buffer, LoadROM and *)
(* Run) is modelled as a state machine: the VM struct's fields are the     *)
(* variables, cmd/main.go's test() is the life cycle (construct, Init,     *)
(* LoadROM, Run) and every instruction class of executeCycle is an action. *)
(* A Go run-time panic (index out of range, explicit panic) ends the       *)
(* process: the state keeps what had been written before the fault and     *)
(* proc becomes "panic".                                                   *)
(***************************************************************************)
EXTENDS Integers, Sequences, FiniteSets, TLC

(***************************************************************************)
(* Program constants.                                                      *)
(***************************************************************************)
MemSize == 4096
ProgStart == 512
RomLimit == 4096
StackSize == 16
NumRegs == 16
Width == 64
Height == 32
Word == 65536
Byte == 256

(***************************************************************************)
(* Go's unsigned integer operators on uint8 / uint16 values.               *)
(***************************************************************************)
RECURSIVE And(_, _)
And(a, b) ==
  IF a = 0 \/ b = 0 THEN 0
  ELSE (a % 2) * (b % 2) + 2 * And(a \div 2, b \div 2)

RECURSIVE Or(_, _)
Or(a, b) ==
  IF a = 0 THEN b
  ELSE IF b = 0 THEN a
  ELSE (IF a % 2 = 1 \/ b % 2 = 1 THEN 1 ELSE 0) + 2 * Or(a \div 2, b \div 2)

RECURSIVE Xor(_, _)
Xor(a, b) ==
  IF a = 0 THEN b
  ELSE IF b = 0 THEN a
  ELSE ((a + b) % 2) + 2 * Xor(a \div 2, b \div 2)

RECURSIVE Pow2(_)
Pow2(k) == IF k = 0 THEN 1 ELSE 2 * Pow2(k - 1)

Shr(a, k) == a \div Pow2(k)
Shl8(a, k) == (a * Pow2(k)) % Byte
Add8(a, b) == (a + b) % Byte
Sub8(a, b) == (a - b + Byte) % Byte
Add16(a, b) == (a + b) % Word
Sub16(a, b) == (a - b + Word) % Word
Uint8(a) == a % Byte

(***************************************************************************)
(* The VM struct, the Display it renders to, and the process.              *)
(***************************************************************************)
VARIABLES
  opcode,      \* vm.opcode
  memory,      \* vm.memory [4096]byte
  pc,          \* vm.pc
  index,       \* vm.index
  stack,       \* vm.stack [16]uint16
  sp,          \* vm.sp
  delayTimer,  \* vm.delayTimer
  soundTimer,  \* vm.soundTimer
  variables,   \* vm.variables [16]uint8
  vf,          \* vm.vf
  pixels,      \* vm.pixels [64][32]byte
  display,     \* the window: the frame last rendered and the number of Render calls
  proc,        \* where test() is: "new" (after Init), "run" (in Run), "panic"
  loadErr,     \* the value LoadROM returned ("" before the call)
  bytes,       \* LoadROM's bytes: what ioutil.ReadFile returned
  hist         \* the VM before the last cycle (and before the one before it)

vars == <<opcode, memory, pc, index, stack, sp, delayTimer, soundTimer,
          variables, vf, pixels, display, proc, loadErr, bytes, hist>>

ZeroPixels == [x \in 0..(Width - 1) |-> [y \in 0..(Height - 1) |-> 0]]

(***************************************************************************)
(* Display.Render(pixels): the window is cleared and one rectangle is      *)
(* pushed for every cell with pixels[x][31-y] != 0.                        *)
(***************************************************************************)
RenderCountedTwice(d, px) ==
  [frame |-> {c \in (0..(Width - 1)) \X (0..(Height - 1)) : px[c[1]][31 - c[2]] # 0},
   calls |-> d.calls + 2]

Render(d, px) ==
  [frame |-> {c \in (0..(Width - 1)) \X (0..(Height - 1)) : px[c[1]][31 - c[2]] # 0},
   calls |-> d.calls + 1]

(***************************************************************************)
(* Decoding (executeCycle, the nibbles of the opcode).                     *)
(***************************************************************************)
Instr(op) == And(op, \hF000)
X(op) == Shr(And(op, \h0F00), 8)
Y(op) == Shr(And(op, \h00F0), 4)
N(op) == And(op, \h000F)
NN(op) == And(op, \h00FF)
NNN(op) == And(op, \h0FFF)

(***************************************************************************)
(* Fetch: memory[pc] and memory[pc+1] are indexed; an index >= 4096 is a   *)
(* run-time panic, raised before vm.opcode and vm.pc are assigned.         *)
(***************************************************************************)
FetchAddrs == <<pc, Add16(pc, 1)>>
CanFetch == FetchAddrs[1] < MemSize /\ FetchAddrs[2] < MemSize
Fetched == Or(memory[FetchAddrs[1]] * Byte, memory[FetchAddrs[2]])
NextPC == Add16(pc, 2)

Snapshot ==
  [ran |-> TRUE, op |-> opcode, pc1 |-> pc, pc2 |-> hist.pc1, sp1 |-> sp, sp2 |-> hist.sp1,
   pixels1 |-> pixels, pixels2 |-> hist.pixels1,
   variables1 |-> variables, vf1 |-> vf, index1 |-> index]

\* The cycle fetches an opcode of class c: vm.opcode is assigned.
Fetch(c) ==
  /\ proc = "run"
  /\ CanFetch
  /\ Instr(Fetched) = c
  /\ opcode' = Fetched
  /\ hist' = Snapshot

FetchPanic ==
  /\ proc = "run"
  /\ ~CanFetch
  /\ proc' = "panic"
  /\ UNCHANGED <<opcode, memory, pc, index, stack, sp, delayTimer, soundTimer,
                 variables, vf, pixels, display, loadErr, bytes, hist>>

(***************************************************************************)
(* Class 0x0: 00E0 clear, 00EE return; any other low byte matches no case. *)
(***************************************************************************)
ClearScreen ==
  /\ Fetch(\h0000)
  /\ NN(Fetched) = \hE0
  /\ pixels' = ZeroPixels
  /\ pc' = NextPC
  /\ UNCHANGED <<memory, index, stack, sp, delayTimer, soundTimer, variables,
                 vf, display, proc, loadErr, bytes>>

\* vm.pc = vm.stack[vm.sp]; vm.sp -= 1
PopPC(s) == stack[s]
PopSP(s) == Sub16(s, 1)

Return ==
  /\ Fetch(\h0000)
  /\ NN(Fetched) = \hEE
  /\ IF sp < StackSize
       THEN /\ pc' = PopPC(sp)
            /\ sp' = PopSP(sp)
            /\ UNCHANGED proc
       ELSE /\ pc' = NextPC
            /\ proc' = "panic"
            /\ UNCHANGED sp
  /\ UNCHANGED <<memory, index, stack, delayTimer, soundTimer, variables, vf,
                 pixels, display, loadErr, bytes>>

(***************************************************************************)
(* 1nnn jump, 2nnn call.                                                   *)
(***************************************************************************)
Jump ==
  /\ Fetch(\h1000)
  /\ pc' = NNN(Fetched)
  /\ UNCHANGED <<memory, index, stack, sp, delayTimer, soundTimer, variables,
                 vf, pixels, display, proc, loadErr, bytes>>

\* A call that saves the address of the call itself.
PushAddrOfCall == pc

\* vm.sp += 1; vm.stack[vm.sp] = vm.pc (the address after the call)
PushSP(s) == Add16(s, 1)
PushAddr == NextPC

Call ==
  /\ Fetch(\h2000)
  /\ sp' = PushSP(sp)
  /\ IF sp' < StackSize
       THEN /\ stack' = [stack EXCEPT ![sp'] = PushAddr]
            /\ pc' = NNN(Fetched)
            /\ UNCHANGED proc
       ELSE /\ pc' = NextPC
            /\ proc' = "panic"
            /\ UNCHANGED stack
  /\ UNCHANGED <<memory, index, delayTimer, soundTimer, variables, vf, pixels,
                 display, loadErr, bytes>>

(***************************************************************************)
(* 3xnn, 4xnn, 5xy?, 9xy?: conditional skips.  The switch is on the class  *)
(* alone, so the low nibble of 5xy? and 9xy? is not looked at.             *)
(***************************************************************************)
SkipCond(op) ==
  CASE Instr(op) = \h3000 -> variables[X(op)] = Uint8(NN(op))
    [] Instr(op) = \h4000 -> variables[X(op)] # Uint8(NN(op))
    [] Instr(op) = \h5000 -> variables[X(op)] = variables[Y(op)]
    [] Instr(op) = \h9000 -> variables[X(op)] # variables[Y(op)]

Skip ==
  /\ \E c \in {\h3000, \h4000, \h5000, \h9000} : Fetch(c)
  /\ pc' = IF SkipCond(Fetched) THEN Add16(NextPC, 2) ELSE NextPC
  /\ UNCHANGED <<memory, index, stack, sp, delayTimer, soundTimer, variables,
                 vf, pixels, display, proc, loadErr, bytes>>

(***************************************************************************)
(* 6xnn load, 7xnn add immediate.                                          *)
(***************************************************************************)
LoadImm ==
  /\ Fetch(\h6000)
  /\ variables' = [variables EXCEPT ![X(Fetched)] = Uint8(NN(Fetched))]
  /\ pc' = NextPC
  /\ UNCHANGED <<memory, index, stack, sp, delayTimer, soundTimer, vf, pixels,
                 display, proc, loadErr, bytes>>

\* An add that saturates at 255 instead of wrapping.
AddImmSaturating(v, nn) == IF v + Uint8(nn) > 255 THEN 255 ELSE v + Uint8(nn)

\* vm.variables[x] += uint8(nn)
AddImmResult(v, nn) == Add8(v, Uint8(nn))

AddImm ==
  /\ Fetch(\h7000)
  /\ variables' = [variables EXCEPT
                     ![X(Fetched)] = AddImmResult(@, NN(Fetched))]
  /\ pc' = NextPC
  /\ UNCHANGED <<memory, index, stack, sp, delayTimer, soundTimer, vf, pixels,
                 display, proc, loadErr, bytes>>

(***************************************************************************)
(* Class 0x8: register-to-register operations.  8xy4, 8xy5 and 8xy7 do not *)
(* assign vm.vf; 8xy6 and 8xyE assign vm.vf = 1 when the bit shifted out   *)
(* is 1 and leave it alone otherwise.                                      *)
(***************************************************************************)
AluCases == {0, 1, 2, 3, 4, 5, 6, 7, 14}

AluResult(n, vx, vy) ==
  CASE n = 0 -> vy
    [] n = 1 -> Or(vx, vy)
    [] n = 2 -> And(vx, vy)
    [] n = 3 -> Xor(vx, vy)
    [] n = 4 -> Add8(vx, vy)
    [] n = 5 -> Sub8(vx, vy)
    [] n = 6 -> Shr(vy, 1)
    [] n = 7 -> Sub8(vy, vx)
    [] n = 14 -> Shl8(vy, 1)

AluFlag(n, vx, vy, f) ==
  CASE n = 6 -> IF And(vy, \h01) = \h01 THEN 1 ELSE f
    [] n = 14 -> IF And(vy, \h80) = \h80 THEN 1 ELSE f
    [] OTHER -> f

Alu ==
  /\ Fetch(\h8000)
  /\ N(Fetched) \in AluCases
  /\ LET x == X(Fetched)
         y == Y(Fetched)
         n == N(Fetched)
     IN /\ variables' = [variables EXCEPT
                           ![x] = AluResult(n, variables[x], variables[y])]
        /\ vf' = AluFlag(n, variables[x], variables[y], vf)
  /\ pc' = NextPC
  /\ UNCHANGED <<memory, index, stack, sp, delayTimer, soundTimer, pixels,
                 display, proc, loadErr, bytes>>

(***************************************************************************)
(* Annn set index, Cxnn random.                                            *)
(***************************************************************************)
SetIndex ==
  /\ Fetch(\hA000)
  /\ index' = NNN(Fetched)
  /\ pc' = NextPC
  /\ UNCHANGED <<memory, stack, sp, delayTimer, soundTimer, variables, vf,
                 pixels, display, proc, loadErr, bytes>>

\* uint16(rand.Uint32()): the values the generator is taken to return.
RandVals == {0, \h00A5, \hFFFF}

Random ==
  /\ Fetch(\hC000)
  /\ \E r \in RandVals :
       variables' = [variables EXCEPT
                       ![X(Fetched)] = Uint8(And(r, NN(Fetched)))]
  /\ pc' = NextPC
  /\ UNCHANGED <<memory, index, stack, sp, delayTimer, soundTimer, vf, pixels,
                 display, proc, loadErr, bytes>>

(***************************************************************************)
(* Dxyn: draw the n-row sprite at memory[index..] at (Vx & 63, Vy & 31).   *)
(* The loops run row by row, bit by bit; a sprite row read at an address   *)
(* >= 4096 and a set bit whose cell is outside [64][32] are index-out-of-  *)
(* range panics, which leave the cells toggled so far and skip Render.     *)
(* Event 9*i is the read of row i, event 9*i + 1 + b is bit b of row i.    *)
(***************************************************************************)
XCoord(op) == And(variables[X(op)], 63)
YCoord(op) == And(variables[Y(op)], 31)
RowAddr(i) == Add16(index, i)
\* A draw that takes the least-significant bit as the leftmost pixel.
SpriteBitLsbFirst(row, b) == And(row, Pow2(b)) # 0

SpriteBit(row, b) == And(row, Shr(\h80, b)) # 0
CellX(op, b) == Add8(XCoord(op), Uint8(b))
CellY(op, i) == Add8(YCoord(op), Uint8(i))
\* A draw that toggles the low bit of the cell only.
ToggleLowBit(v) == Xor(v, \h01)

\* A draw that sets the cell instead of toggling it.
ToggleByOr(v) == Or(v, \hFF)

\* vm.pixels[..][..] == 0xFF, and vm.pixels[..][..] ^= 0xFF
IsOn(v) == v = \hFF
Toggle(v) == Xor(v, \hFF)

DrawFault(op, e) ==
  LET i == e \div 9
      s == e % 9
  IN IF s = 0
       THEN RowAddr(i) >= MemSize
       ELSE /\ RowAddr(i) < MemSize
            /\ SpriteBit(memory[RowAddr(i)], s - 1)
            /\ (CellX(op, s - 1) >= Width \/ CellY(op, i) >= Height)

\* The number of events that complete: 9n when the draw runs to its end.
DrawReach(op) ==
  LET faults == {e \in 0..(9 * N(op) - 1) : DrawFault(op, e)}
  IN IF faults = {} THEN 9 * N(op)
     ELSE CHOOSE e \in faults : \A f \in faults : e <= f

\* The cells toggled: the set bits of the events that complete.
DrawCells(op) ==
  {<<CellX(op, (e % 9) - 1), CellY(op, e \div 9)>> :
     e \in {d \in 0..(DrawReach(op) - 1) :
              d % 9 # 0 /\ SpriteBit(memory[RowAddr(d \div 9)], (d % 9) - 1)}}

DrawPixels(op) ==
  LET cells == DrawCells(op)
  IN [x \in 0..(Width - 1) |-> [y \in 0..(Height - 1) |->
        IF <<x, y>> \in cells THEN Toggle(pixels[x][y]) ELSE pixels[x][y]]]

\* vm.vf = 0, then vm.vf = 1 when a toggled cell held 0xFF
DrawFlag(op) ==
  IF \E c \in DrawCells(op) : IsOn(pixels[c[1]][c[2]]) THEN 1 ELSE 0

Draw ==
  /\ Fetch(\hD000)
  /\ pixels' = DrawPixels(Fetched)
  /\ vf' = DrawFlag(Fetched)
  /\ pc' = NextPC
  /\ IF DrawReach(Fetched) = 9 * N(Fetched)
       THEN /\ display' = Render(display, pixels')
            /\ UNCHANGED proc
       ELSE /\ proc' = "panic"
            /\ UNCHANGED display
  /\ UNCHANGED <<memory, index, stack, sp, delayTimer, soundTimer, variables,
                 loadErr, bytes>>

(***************************************************************************)
(* Class 0xF: timers, index add, register save and load.                   *)
(***************************************************************************)
GetDelay ==
  /\ Fetch(\hF000)
  /\ NN(Fetched) = \h07
  /\ variables' = [variables EXCEPT ![X(Fetched)] = delayTimer]
  /\ pc' = NextPC
  /\ UNCHANGED <<memory, index, stack, sp, delayTimer, soundTimer, vf, pixels,
                 display, proc, loadErr, bytes>>

SetTimer ==
  /\ Fetch(\hF000)
  /\ NN(Fetched) \in {\h15, \h18}
  /\ IF NN(Fetched) = \h15
       THEN delayTimer' = variables[X(Fetched)] /\ UNCHANGED soundTimer
       ELSE soundTimer' = variables[X(Fetched)] /\ UNCHANGED delayTimer
  /\ pc' = NextPC
  /\ UNCHANGED <<memory, index, stack, sp, variables, vf, pixels, display,
                 proc, loadErr, bytes>>

AddIndex ==
  /\ Fetch(\hF000)
  /\ NN(Fetched) = \h1E
  /\ index' = Add16(index, variables[X(Fetched)])
  /\ pc' = NextPC
  /\ UNCHANGED <<memory, stack, sp, delayTimer, soundTimer, variables, vf,
                 pixels, display, proc, loadErr, bytes>>

\* for i := 0; i < len(vm.variables); i++: the registers the loop covers,
\* and those it reaches before memory[index+i] is out of range.
RegLoop(op) == 0..(NumRegs - 1)
RegReach(op) ==
  {i \in RegLoop(op) : \A j \in 0..i : Add16(index, j) < MemSize}

SaveRegs ==
  /\ Fetch(\hF000)
  /\ NN(Fetched) = \h55
  /\ LET reach == RegReach(Fetched)
     IN memory' = [a \in 0..(MemSize - 1) |->
                     IF Sub16(a, index) \in reach
                       THEN variables[Sub16(a, index)] ELSE memory[a]]
  /\ proc' = IF RegReach(Fetched) = RegLoop(Fetched) THEN proc ELSE "panic"
  /\ pc' = NextPC
  /\ UNCHANGED <<index, stack, sp, delayTimer, soundTimer, variables, vf,
                 pixels, display, loadErr, bytes>>

LoadRegs ==
  /\ Fetch(\hF000)
  /\ NN(Fetched) = \h65
  /\ variables' = [i \in 0..(NumRegs - 1) |->
                     IF i \in RegReach(Fetched)
                       THEN memory[Add16(index, i)] ELSE variables[i]]
  /\ proc' = IF RegReach(Fetched) = RegLoop(Fetched) THEN proc ELSE "panic"
  /\ pc' = NextPC
  /\ UNCHANGED <<memory, index, stack, sp, delayTimer, soundTimer, vf, pixels,
                 display, loadErr, bytes>>

(***************************************************************************)
(* Bnnn, Fx0A, Fx29, Fx33: panic(fmt.Errorf("not implemented ...")).       *)
(***************************************************************************)
IsNotImplemented(op) ==
  \/ Instr(op) = \hB000
  \/ Instr(op) = \hF000 /\ NN(op) \in {\h0A, \h29, \h33}

NotImplemented ==
  /\ \E c \in {\hB000, \hF000} : Fetch(c)
  /\ IsNotImplemented(Fetched)
  /\ proc' = "panic"
  /\ pc' = NextPC
  /\ UNCHANGED <<memory, index, stack, sp, delayTimer, soundTimer, variables,
                 vf, pixels, display, loadErr, bytes>>

(***************************************************************************)
(* An opcode that matches no case of the switches (class 0x0 with a low    *)
(* byte other than E0/EE, class 0x8 with an unlisted low nibble, class 0xE,*)
(* class 0xF with an unlisted low byte): the cycle returns normally,       *)
(* having done nothing but the fetch.                                      *)
(***************************************************************************)
MatchesNoCase(op) ==
  \/ Instr(op) = \h0000 /\ NN(op) \notin {\hE0, \hEE}
  \/ Instr(op) = \h8000 /\ N(op) \notin AluCases
  \/ Instr(op) = \hE000
  \/ Instr(op) = \hF000
       /\ NN(op) \notin {\h07, \h15, \h18, \h1E, \h0A, \h29, \h33, \h55, \h65}

NoCase ==
  /\ \E c \in {\h0000, \h8000, \hE000, \hF000} : Fetch(c)
  /\ MatchesNoCase(Fetched)
  /\ pc' = NextPC
  /\ UNCHANGED <<memory, index, stack, sp, delayTimer, soundTimer, variables,
                 vf, pixels, display, proc, loadErr, bytes>>

(***************************************************************************)
(* LoadROM: the file is read; more than 4096 bytes is refused with an      *)
(* error; otherwise byte i is written to memory[i+512], which is an        *)
(* index-out-of-range panic at i = 3584.  test() drops the error returned  *)
(* and calls Run.                                                          *)
(***************************************************************************)
RomAccepted(rom) == ~(Len(rom) > RomLimit)
RomAddr(i) == i + ProgStart
\* Byte i is written: it is in the file and no earlier index was >= 4096.
RomWritten(rom, i) == i >= 0 /\ i < Len(rom) /\ RomAddr(i) < MemSize
RomFits(rom) == \A i \in 0..(Len(rom) - 1) : RomAddr(i) < MemSize

LoadedMemory(rom) ==
  [a \in 0..(MemSize - 1) |->
     IF RomWritten(rom, a - ProgStart) THEN rom[a - ProgStart + 1] ELSE memory[a]]

(***************************************************************************)
(* The ROM files the model is run on.  A program is a sequence of opcodes, *)
(* stored big-endian; most programs end in a jump to itself so that the    *)
(* run settles instead of walking through the zeroed rest of memory.       *)
(***************************************************************************)
MaxPad == 1
MaxNest == 2
MaxHeight == 2

Asm(ops) ==
  [k \in 1..(2 * Len(ops)) |->
     IF k % 2 = 1 THEN ops[(k + 1) \div 2] \div Byte ELSE ops[k \div 2] % Byte]
AddrOf(k) == ProgStart + 2 * k
Halted(ops) == Asm(Append(ops, \h1000 + AddrOf(Len(ops))))
Pad(k) == [j \in 1..k |-> \h6E00]

ByteVals == {0, 1, 100, 200, 255}

\* V0 := a, V1 := b, then one class-8 operation on (V0, V1) or (V1, V1).
AluRoms ==
  {Halted(<<\h6000 + a, \h6100 + b, \h8000 + xy + n>>) :
     a \in ByteVals, b \in ByteVals, xy \in {\h0010},
     n \in AluCases \cup {8}}
  \cup {Halted(<<\h6100 + b, \h8110 + n>>) : b \in ByteVals, n \in {4, 5, 6, 14}}
  \cup {Halted(<<\h6000 + a, \h6F00 + b, \h8F00 + n>>) :
          a \in {1, 200}, b \in {100, 255}, n \in {4, 5, 7}}

\* Vx := a, then 7xnn.
AddImmRoms ==
  {Halted(<<\h6000 + x * Byte + a, \h6300 + 7, \h7000 + x * Byte + nn>>) :
     x \in {0, 7, 15}, a \in ByteVals, nn \in ByteVals}

\* V0 := a, V1 := b, then a skip over a load of V2.
SkipRoms ==
  {Halted(<<\h6000 + a, \h6100 + b, op, \h6201>>) :
     a \in {0, 1, 200}, b \in {1, 200},
     op \in {\h3001, \h30C8, \h4001, \h40C8, \h5010, \h9010, \h5011, \h9011}}

\* pad instructions, a call whose target is gap words after the halt, and a
\* return there; chains of nested calls; a call to itself; a bare return.
CallRoms ==
  {Asm(Pad(k) \o <<\h2000 + AddrOf(k + 2 + g), \h1000 + AddrOf(k + 1)>>
         \o [j \in 1..g |-> 0] \o <<\h00EE>>) :
     k \in 0..MaxPad, g \in 0..1}
  \cup {Asm(<<\h2000 + AddrOf(2), \h1000 + AddrOf(1)>>
              \o [j \in 1..(2 * d) |->
                    IF j = 2 * d - 1 \/ j % 2 = 0 THEN \h00EE
                    ELSE \h2000 + AddrOf(j + 3)]) :
          d \in 1..MaxNest}
  \cup {Asm(Pad(k) \o <<\h2000 + AddrOf(k)>>) : k \in 0..MaxPad}
  \cup {Asm(<<\h00EE>>), Asm(<<\h2FFE>>), Asm(<<\h2FFF>>)}

\* V0 := x, V1 := y, I := the sprite (stored after the halt), one row drawn
\* at (V2, V3) = (0, 0), then Dxyn at (V0, V1) twice, a clear, and Dxyn again.
Sprites == {<<\hFF, \h81>>, <<\h80, \h80>>, <<\h3C, \h00>>}
DrawRoms ==
  {Halted(<<\h6000 + x, \h6100 + y, \hA000 + AddrOf(9), \hD231, \hD010 + n,
            \hD010 + n, \h00E0, \hD010 + n>>) \o sprite :
     x \in {0, 5, 60, 63, 69}, y \in {0, 30, 31, 33},
     n \in 0..MaxHeight, sprite \in Sprites}

\* One opcode after V0 := 5, V1 := 5, V2 := 9, I := 0x300, and a load of VE
\* after it.
MiscOps ==
  {\h5001, \h9001, \h5021, \h9021, \h8008, \h801F, \h0123, \h0000, \hE09E,
   \hE0A1, \hF0FF, \hF000, \hB123, \hF00A, \hF029, \hF033, \hF007, \hF015,
   \hF018, \hF21E, \hC0FF, \hC10F, \h1FFF, \h1FFE, \h1FFC, \hD001, \h00E0}
MiscRoms ==
  {Halted(<<\h6005, \h6105, \h6209, \hA300, op, \h6E01>>) : op \in MiscOps}

\* Registers set, I := addr (+ V3), then Fx55, V0 := 0, Fx65.
RegRoms ==
  {Halted(<<\h6011, \h6122, \h6F33, \h63FF, \hA000 + addr>> \o bump
            \o <<\hF055 + x * Byte, \h6000, \h6F00, \hF065 + x * Byte>>) :
     addr \in {\h300, \hFF0, \hFF1, \hFFF}, x \in {0, 1, 15},
     bump \in {<<>>, <<\hF31E>>}}

\* V1 := a, a shift of V1 into V0, V1 := b, a second shift: the flag the
\* first shift leaves is the prior flag of the second.
ShiftRoms ==
  {Halted(<<\h6100 + a, \h8010 + n, \h6100 + b, \h8010 + m>>) :
     a \in {1, 129}, b \in {0, 2, 129}, n \in {6, 14}, m \in {6, 14}}

\* A sprite row drawn at (0, 0), then a clear, and no draw after it.
ClearRoms ==
  {Halted(<<\hA000 + AddrOf(4), \hD001 + k, \h00E0>>) \o <<\hFF, \h81>> :
     k \in 0..1}

\* Files around the size limits: a jump to itself, then bytes that differ
\* from their neighbours.
BigRom(len) ==
  [k \in 1..len |->
     IF k = 1 THEN \h12 ELSE IF k = 2 THEN \h00 ELSE ((k * 7) % 255) + 1]
BigRoms ==
  {BigRom(len) : len \in {MemSize - ProgStart - 1, MemSize - ProgStart,
                          MemSize - ProgStart + 1, RomLimit, RomLimit + 1}}

ROMS ==
  AluRoms \cup AddImmRoms \cup SkipRoms \cup CallRoms \cup DrawRoms
    \cup MiscRoms \cup RegRoms \cup ShiftRoms \cup ClearRoms \cup BigRoms

\* ioutil.ReadFile fails: the error is returned, memory is not touched.
LoadROMReadError ==
  /\ proc = "new"
  /\ loadErr' = "read"
  /\ UNCHANGED bytes
  /\ proc' = "run"
  /\ UNCHANGED <<opcode, memory, pc, index, stack, sp, delayTimer, soundTimer,
                 variables, vf, pixels, display, hist>>

LoadROM ==
  /\ proc = "new"
  /\ \E rom \in ROMS :
       /\ bytes' = rom
       /\ IF RomAccepted(rom)
            THEN /\ memory' = LoadedMemory(rom)
                 /\ IF RomFits(rom)
                      THEN loadErr' = "nil" /\ proc' = "run"
                      ELSE loadErr' = "" /\ proc' = "panic"
            ELSE /\ loadErr' = "size"
                 /\ proc' = "run"
                 /\ UNCHANGED memory
  /\ UNCHANGED <<opcode, pc, index, stack, sp, delayTimer, soundTimer,
                 variables, vf, pixels, display, hist>>

(***************************************************************************)
(* The VM after &vm.VM{} and vm.Init(display): all zero but pc = 0x200.    *)
(***************************************************************************)
Init ==
  /\ opcode = 0
  /\ memory = [a \in 0..(MemSize - 1) |-> 0]
  /\ pc = \h200
  /\ index = 0
  /\ stack = [i \in 0..(StackSize - 1) |-> 0]
  /\ sp = 0
  /\ delayTimer = 0
  /\ soundTimer = 0
  /\ variables = [i \in 0..(NumRegs - 1) |-> 0]
  /\ vf = 0
  /\ pixels = ZeroPixels
  /\ display = [frame |-> {}, calls |-> 0]
  /\ proc = "new"
  /\ loadErr = ""
  /\ bytes = <<>>
  /\ hist = [ran |-> FALSE, op |-> 0, pc1 |-> 0, pc2 |-> 0, sp1 |-> 0, sp2 |-> 0,
             pixels1 |-> ZeroPixels, pixels2 |-> ZeroPixels,
             variables1 |-> [i \in 0..(NumRegs - 1) |-> 0], vf1 |-> 0,
             index1 |-> 0]

\* Run: for { vm.executeCycle() }
Next ==
  \/ LoadROMReadError
  \/ LoadROM
  \/ FetchPanic
  \/ ClearScreen
  \/ Return
  \/ Jump
  \/ Call
  \/ Skip
  \/ LoadImm
  \/ AddImm
  \/ Alu
  \/ SetIndex
  \/ Random
  \/ Draw
  \/ GetDelay
  \/ SetTimer
  \/ AddIndex
  \/ SaveRegs
  \/ LoadRegs
  \/ NotImplemented
  \/ NoCase

Spec == Init /\ [][Next]_vars

\* Run is `for { vm.executeCycle() }`: as long as a cycle can change the
\* state, one is eventually executed.
FairSpec == Spec /\ WF_vars(Next)

(***************************************************************************)
(* The second VM of the repository (flat pixel buffer).  It has the same   *)
(* fields, with pixels a [64 * 32]byte, and executeCycle only: no Init, no *)
(* LoadROM, no Run, no class 0xF and no call of Render.  The same          *)
(* variables hold its state; pixels is a function on 0..2047.              *)
(***************************************************************************)
FlatSize == Width * Height
FlatZeroPixels == [k \in 0..(FlatSize - 1) |-> 0]

\* x := vm.opcode & 0x0F00 and y := vm.opcode & 0x00F0: no shift.
FlatX(op) == And(op, \h0F00)
FlatY(op) == And(op, \h00F0)

\* vm.opcode = ...; vm.pc += 2; instr := vm.opcode & 0xF000
FlatFetch(c) == Fetch(c)

\* The indices at which the case of op indexes vm.variables.  Each case
\* evaluates these index expressions before it assigns anything.
FlatRegUse(op) ==
  CASE Instr(op) \in {\h3000, \h4000, \h6000, \h7000, \hC000} -> {FlatX(op)}
    [] Instr(op) \in {\h5000, \h9000, \hD000} -> {FlatX(op), FlatY(op)}
    [] Instr(op) = \h8000 /\ N(op) \in AluCases -> {FlatX(op), FlatY(op)}
    [] OTHER -> {}

FlatRegsOK(op) == \A i \in FlatRegUse(op) : i < NumRegs

\* variables[x] or variables[y] with an index >= 16: index out of range.
FlatRegPanic ==
  /\ \E c \in {\h3000, \h4000, \h5000, \h6000, \h7000, \h8000, \h9000,
               \hC000, \hD000} : FlatFetch(c)
  /\ ~FlatRegsOK(Fetched)
  /\ pc' = NextPC
  /\ proc' = "panic"
  /\ UNCHANGED <<memory, index, stack, sp, delayTimer, soundTimer, variables,
                 vf, pixels, display, loadErr, bytes>>

FlatClearScreen ==
  /\ FlatFetch(\h0000)
  /\ NN(Fetched) = \hE0
  /\ pixels' = FlatZeroPixels
  /\ pc' = NextPC
  /\ UNCHANGED <<memory, index, stack, sp, delayTimer, soundTimer, variables,
                 vf, display, proc, loadErr, bytes>>

\* 00EE, 1nnn, 2nnn and Annn have the text of the first VM.
FlatReturn == Return
FlatJump == Jump
FlatCall == Call
FlatSetIndex == SetIndex

\* 9xy0 tests vm.variables[x] == vm.variables[y], as 5xy0 does.
FlatSkipCond(op) ==
  CASE Instr(op) = \h3000 -> variables[FlatX(op)] = Uint8(NN(op))
    [] Instr(op) = \h4000 -> variables[FlatX(op)] # Uint8(NN(op))
    [] Instr(op) = \h5000 -> variables[FlatX(op)] = variables[FlatY(op)]
    [] Instr(op) = \h9000 -> variables[FlatX(op)] = variables[FlatY(op)]

FlatSkip ==
  /\ \E c \in {\h3000, \h4000, \h5000, \h9000} : FlatFetch(c)
  /\ FlatRegsOK(Fetched)
  /\ pc' = IF FlatSkipCond(Fetched) THEN Add16(NextPC, 2) ELSE NextPC
  /\ UNCHANGED <<memory, index, stack, sp, delayTimer, soundTimer, variables,
                 vf, pixels, display, proc, loadErr, bytes>>

FlatLoadImm ==
  /\ FlatFetch(\h6000)
  /\ FlatRegsOK(Fetched)
  /\ variables' = [variables EXCEPT ![FlatX(Fetched)] = Uint8(NN(Fetched))]
  /\ pc' = NextPC
  /\ UNCHANGED <<memory, index, stack, sp, delayTimer, soundTimer, vf, pixels,
                 display, proc, loadErr, bytes>>

FlatAddImm ==
  /\ FlatFetch(\h7000)
  /\ FlatRegsOK(Fetched)
  /\ variables' = [variables EXCEPT
                     ![FlatX(Fetched)] = Add8(@, Uint8(NN(Fetched)))]
  /\ pc' = NextPC
  /\ UNCHANGED <<memory, index, stack, sp, delayTimer, soundTimer, vf, pixels,
                 display, proc, loadErr, bytes>>

FlatAlu ==
  /\ FlatFetch(\h8000)
  /\ N(Fetched) \in AluCases
  /\ FlatRegsOK(Fetched)
  /\ LET x == FlatX(Fetched)
         y == FlatY(Fetched)
         n == N(Fetched)
     IN /\ variables' = [variables EXCEPT
                           ![x] = AluResult(n, variables[x], variables[y])]
        /\ vf' = AluFlag(n, variables[x], variables[y], vf)
  /\ pc' = NextPC
  /\ UNCHANGED <<memory, index, stack, sp, delayTimer, soundTimer, pixels,
                 display, proc, loadErr, bytes>>

FlatRandom ==
  /\ FlatFetch(\hC000)
  /\ FlatRegsOK(Fetched)
  /\ \E r \in RandVals :
       variables' = [variables EXCEPT
                       ![FlatX(Fetched)] = Uint8(And(r, NN(Fetched)))]
  /\ pc' = NextPC
  /\ UNCHANGED <<memory, index, stack, sp, delayTimer, soundTimer, vf, pixels,
                 display, proc, loadErr, bytes>>

\* pixelsIndex := (64 * ycoord) + xcoord, in uint8 arithmetic.
PixelsIndex(xcoord, ycoord) == Add8((64 * ycoord) % Byte, xcoord)

\* The inner loop of Dxyn from bit b on: the x coordinate, the buffer and
\* the flag it leaves.  A set bit at an index that is a multiple of 64
\* breaks out of the loop.
RECURSIVE FlatBits(_, _, _, _, _, _)
FlatBits(b, xcoord, ycoord, spriteRow, px, f) ==
  IF b = 8 THEN [xcoord |-> xcoord, px |-> px, f |-> f]
  ELSE LET pixelsIndex == PixelsIndex(xcoord, ycoord)
       IN IF And(spriteRow, \h80) = \h80
            THEN IF pixelsIndex % 64 = 0
                   THEN [xcoord |-> xcoord, px |-> px, f |-> f]
                   ELSE FlatBits(b + 1, Add8(xcoord, 1), ycoord,
                                 Shl8(spriteRow, 1),
                                 [px EXCEPT ![pixelsIndex] = Xor(@, 1)],
                                 IF px[pixelsIndex] = \hFF THEN 1 ELSE f)
            ELSE FlatBits(b + 1, Add8(xcoord, 1), ycoord, Shl8(spriteRow, 1),
                          px, f)

\* The outer loop of Dxyn from row i on.  xcoord is carried from row to
\* row; memory[memoryIndex+i] with an index >= 4096 panics.
RECURSIVE FlatRows(_, _, _, _, _, _)
FlatRows(i, n, xcoord, ycoord, px, f) ==
  IF i >= n THEN [px |-> px, f |-> f, ok |-> TRUE]
  ELSE IF Add16(index, i) >= MemSize THEN [px |-> px, f |-> f, ok |-> FALSE]
  ELSE LET row == FlatBits(0, xcoord, ycoord, memory[Add16(index, i)], px, f)
           ynext == Add8(ycoord, 1)
       IN IF ynext % 32 = 0
            THEN [px |-> row.px, f |-> row.f, ok |-> TRUE]
            ELSE FlatRows(i + 1, n, row.xcoord, ynext, row.px, row.f)

FlatDrawn(op) ==
  FlatRows(0, N(op), And(variables[FlatX(op)], 63),
           And(variables[FlatY(op)], 31), pixels, vf)

FlatDraw ==
  /\ FlatFetch(\hD000)
  /\ FlatRegsOK(Fetched)
  /\ LET d == FlatDrawn(Fetched)
     IN /\ pixels' = d.px
        /\ vf' = d.f
        /\ proc' = IF d.ok THEN proc ELSE "panic"
  /\ pc' = NextPC
  /\ UNCHANGED <<memory, index, stack, sp, delayTimer, soundTimer, variables,
                 display, loadErr, bytes>>

\* Opcodes no case matches, and Bnnn, whose case is empty.
FlatMatchesNoCase(op) ==
  \/ Instr(op) = \h0000 /\ NN(op) \notin {\hE0, \hEE}
  \/ Instr(op) = \h8000 /\ N(op) \notin AluCases
  \/ Instr(op) \in {\hB000, \hE000, \hF000}

FlatNoCase ==
  /\ \E c \in {\h0000, \h8000, \hB000, \hE000, \hF000} : FlatFetch(c)
  /\ FlatMatchesNoCase(Fetched)
  /\ pc' = NextPC
  /\ UNCHANGED <<memory, index, stack, sp, delayTimer, soundTimer, variables,
                 vf, pixels, display, proc, loadErr, bytes>>

\* Programs at address 0 (the pc of a zero-valued VM), each ending in a jump
\* to itself, with the sprite bytes after it.
FlatHalted(ops) == Asm(Append(ops, \h1000 + 2 * Len(ops)))

FlatSkipProgs ==
  {FlatHalted(<<\h6000 + a, op, \h7001>>) :
     a \in {0, 7}, op \in {\h3007, \h4007, \h5000, \h9000, \h3107, \h9010}}

FlatSprites == {<<\hFF>>, <<\h81, \h3C>>}

FlatDrawProgs ==
  {FlatHalted(<<\h6000 + a, \h8006 + e, \h6000 + a, \hA00E, \hD000 + Len(s),
                \hD000 + Len(s)>>) \o s :
     a \in {0, 5, 31, 62}, e \in {0, 8}, s \in FlatSprites}

FlatMiscProgs ==
  {FlatHalted(<<\h2004, \h1FFE, \h00E0, \hC0FF, \hB123, \h00EE>>),
   FlatHalted(<<\hAFFF, \hD002>>),
   FlatHalted(<<\h6A01>>), FlatHalted(<<\h8120>>), FlatHalted(<<\hD101>>)}

FlatProgs == FlatSkipProgs \cup FlatDrawProgs \cup FlatMiscProgs

FlatMemory(prog) ==
  [a \in 0..(MemSize - 1) |-> IF a < Len(prog) THEN prog[a + 1] ELSE 0]

\* A zero-valued VM whose memory holds a program.
FlatInit ==
  /\ opcode = 0
  /\ \E prog \in FlatProgs : memory = FlatMemory(prog)
  /\ pc = 0
  /\ index = 0
  /\ stack = [i \in 0..(StackSize - 1) |-> 0]
  /\ sp = 0
  /\ delayTimer = 0
  /\ soundTimer = 0
  /\ variables = [i \in 0..(NumRegs - 1) |-> 0]
  /\ vf = 0
  /\ pixels = FlatZeroPixels
  /\ display = [frame |-> {}, calls |-> 0]
  /\ proc = "run"
  /\ loadErr = ""
  /\ bytes = <<>>
  /\ hist = [ran |-> FALSE, op |-> 0, pc1 |-> 0, pc2 |-> 0, sp1 |-> 0, sp2 |-> 0,
             pixels1 |-> FlatZeroPixels, pixels2 |-> FlatZeroPixels,
             variables1 |-> [i \in 0..(NumRegs - 1) |-> 0], vf1 |-> 0,
             index1 |-> 0]

FlatNext ==
  \/ FetchPanic
  \/ FlatRegPanic
  \/ FlatClearScreen
  \/ FlatReturn
  \/ FlatJump
  \/ FlatCall
  \/ FlatSkip
  \/ FlatLoadImm
  \/ FlatAddImm
  \/ FlatAlu
  \/ FlatSetIndex
  \/ FlatRandom
  \/ FlatDraw
  \/ FlatNoCase

FlatSpec == FlatInit /\ [][FlatNext]_vars

(***************************************************************************)
(* Properties.  In a state with hist.ran, opcode is the opcode of the last *)
(* cycle, hist holds the VM before that cycle, hist.op is the opcode of    *)
(* the cycle before it (fetched at hist.pc2), and proc = "run" says the    *)
(* last cycle returned (it did not panic).                                 *)
(***************************************************************************)
Returned == proc = "run" /\ hist.ran
IsCall(op) == Instr(op) = \h2000
IsDraw(op) == Instr(op) = \hD000
Bit(v, k) == (v \div Pow2(k)) % 2

\* C1: a 2nnn followed at once by 00EE leaves PC at the address of the call
\* plus 2 and SP at its value before the call.
C1_CallReturn ==
  (Returned /\ opcode = \h00EE /\ IsCall(hist.op) /\ hist.pc1 = NNN(hist.op))
    => (pc = Add16(hist.pc2, 2) /\ sp = hist.sp2)

C1_Witness ==
  /\ Returned /\ opcode = \h00EE /\ IsCall(hist.op) /\ hist.pc1 = NNN(hist.op)
  /\ hist.sp2 > 0
  /\ hist.pc2 # ProgStart

\* C2: after 8xy4, Vx = (Vx + Vy) mod 256 and the flag is 1 exactly when
\* Vx + Vy > 255; after 8xy5, Vx = (Vx - Vy) mod 256 and the flag is 1
\* exactly when Vx >= Vy held before.
C2_CarryBorrow ==
  LET vx == hist.variables1[X(opcode)]
      vy == hist.variables1[Y(opcode)]
  IN /\ (Returned /\ Instr(opcode) = \h8000 /\ N(opcode) = 4)
          => /\ variables[X(opcode)] = (vx + vy) % 256
             /\ vf = IF vx + vy > 255 THEN 1 ELSE 0
     /\ (Returned /\ Instr(opcode) = \h8000 /\ N(opcode) = 5)
          => /\ variables[X(opcode)] = (vx - vy) % 256
             /\ vf = IF vx >= vy THEN 1 ELSE 0

SpriteCell(op, c, r) ==
  LET b == c - (variables[X(op)] % 64)
      i == r - (variables[Y(op)] % 32)
  IN /\ i \in 0..(N(op) - 1) /\ b \in 0..7
     /\ c < 64 /\ r < 32
     /\ index + i < MemSize
     /\ Bit(memory[index + i], 7 - b) = 1

Defined(op) ==
  \/ op \in {\h00E0, \h00EE}
  \/ Instr(op) \in {\h1000, \h2000, \h3000, \h4000, \h6000, \h7000, \hA000,
                    \hB000, \hC000, \hD000}
  \/ Instr(op) \in {\h5000, \h9000} /\ N(op) = 0
  \/ Instr(op) = \h8000 /\ N(op) \in AluCases
  \/ Instr(op) = \hF000
       /\ NN(op) \in {\h07, \h0A, \h15, \h18, \h1E, \h29, \h33, \h55, \h65}

C5_Unsupported ==
  [][(proc = "run" /\ CanFetch /\ ~Defined(Fetched))
       => /\ proc' = "UnsupportedOpcode"
          /\ pc' = Add16(pc, 2)
          /\ UNCHANGED <<variables, vf, index, stack, sp, delayTimer,
                         soundTimer, memory, pixels>>]_vars

\* C6: a ROM of at most 3584 bytes loads with byte i at address 0x200 + i;
\* a ROM of 3585 bytes or more is refused with a size-limit error and no
\* memory cell is written.
AfterLoad == proc # "new" /\ ~hist.ran /\ loadErr # "read"

C6_RomSizeLimit ==
  AfterLoad =>
    IF Len(bytes) <= 3584
      THEN /\ loadErr = "nil"
           /\ \A i \in 0..(Len(bytes) - 1) : memory[512 + i] = bytes[i + 1]
      ELSE /\ loadErr = "size"
           /\ \A a \in 0..(MemSize - 1) : memory[a] = 0

\* C7: 7xnn sets Vx to (Vx + nn) mod 256 and changes nothing else but PC:
\* no other register, not the flag, I, SP, the stack, the timers, memory or
\* the pixel buffer.
C7_AddImmediate ==
  [][(proc = "run" /\ CanFetch /\ Instr(Fetched) = \h7000)
       => /\ variables' =
               [k \in 0..15 |->
                  IF k = (Fetched \div 256) % 16
                    THEN (variables[k] + (Fetched % 256)) % 256
                    ELSE variables[k]]
          /\ UNCHANGED <<vf, index, sp, stack, delayTimer, soundTimer,
                         memory, pixels>>]_vars

C7_Witness ==
  /\ Returned /\ Instr(opcode) = \h7000
  /\ X(opcode) = 15
  /\ hist.variables1[15] + NN(opcode) > 255
  /\ variables[15] = hist.variables1[15] + NN(opcode) - 256

\* C8: Render is called exactly once by each Dxyn that is executed, with
\* the pixel buffer as the draw left it, and by no other instruction.
Shown(px) ==
  {c \in (0..63) \X (0..31) : px[c[1]][31 - c[2]] # 0}

C8_RenderPerDraw ==
  [][IF proc = "run" /\ CanFetch /\ IsDraw(Fetched) /\ proc' = "run"
       THEN /\ display'.calls = display.calls + 1
            /\ display'.frame = Shown(pixels')
       ELSE display' = display]_vars

C8_Witness ==
  /\ Returned /\ IsDraw(opcode)
  /\ display.calls >= 2
  /\ display.frame # {}
  /\ display.frame = Shown(pixels)

\* C9: SP stays within [0, 15].
C9_StackPointerRange == sp \in 0..15

\* C10: every memory access of a cycle (the opcode fetch at PC and PC + 1,
\* the sprite rows at I + row, the register transfers at I + i) uses an
\* address below 4096.
CycleAccesses ==
  {pc}
    \cup (IF pc < MemSize THEN {Add16(pc, 1)} ELSE {})
    \cup (IF CanFetch /\ IsDraw(Fetched)
            THEN {RowAddr(i) : i \in {j \in 0..(N(Fetched) - 1) :
                                        9 * j <= DrawReach(Fetched)}}
            ELSE {})
    \cup (IF CanFetch /\ Instr(Fetched) = \hF000 /\ NN(Fetched) \in {\h55, \h65}
            THEN {Add16(index, i) : i \in {j \in RegLoop(Fetched) :
                                             \A k \in 0..(j - 1) : k \in RegReach(Fetched)}}
            ELSE {})

C10_MemoryAccessSafety ==
  proc = "run" => \A a \in CycleAccesses : a < 4096

\* C11: 00EE with SP = 0 fails instead of completing: PC is not loaded from
\* a stack slot and SP is not changed.
IsReturn(op) == Instr(op) = \h0000 /\ NN(op) = \hEE

C11_EmptyStackReturn ==
  [][(proc = "run" /\ CanFetch /\ IsReturn(Fetched) /\ sp = 0)
       => /\ proc' # "run"
          /\ pc' \in {pc, Add16(pc, 2)}
          /\ sp' = sp]_vars

\* C12: a Dxyn whose sprite extends past the right edge ((Vx mod 64) + 7 >
\* 63) or the bottom edge ((Vy mod 32) + n - 1 > 31) completes normally and
\* toggles exactly the sprite's set bits that lie on the screen; the cells
\* of the opposite edge are not changed.
PastEdge(op) ==
  \/ (variables[X(op)] % 64) + 7 > 63
  \/ (variables[Y(op)] % 32) + N(op) - 1 > 31

C12_EdgeClipping ==
  [][(proc = "run" /\ CanFetch /\ IsDraw(Fetched) /\ PastEdge(Fetched)
        /\ \A i \in 0..(N(Fetched) - 1) : index + i < MemSize)
       => /\ proc' = "run"
          /\ \A c \in 0..(Width - 1), r \in 0..(Height - 1) :
               (pixels'[c][r] # pixels[c][r]) <=> SpriteCell(Fetched, c, r)]_vars

\* C13: after Dxyn the flag is 1 if and only if a set sprite bit was drawn
\* onto a cell that was on before the draw, and 0 otherwise, whatever the
\* flag was before.  Each cell a draw writes is written once, so the cells
\* drawn onto are the cells that differ from the buffer before the draw.
C13_CollisionFlag ==
  (Returned /\ IsDraw(opcode))
    => vf = IF \E k \in 0..(FlatSize - 1) :
                  pixels[k] # hist.pixels1[k] /\ hist.pixels1[k] # 0
              THEN 1 ELSE 0

\* The same statement for the [64][32] buffer of the first VM.
PrimaryCollisionFlag ==
  (Returned /\ IsDraw(opcode))
    => vf = IF \E c \in 0..(Width - 1), r \in 0..(Height - 1) :
                  pixels[c][r] # hist.pixels1[c][r] /\ hist.pixels1[c][r] # 0
              THEN 1 ELSE 0

\* C14: the flag is register V[0xF]: after every instruction the flag and
\* variables[0xF] hold the same value.
C14_FlagIsVF == vf = variables[15]

\* C15: 8xy6 sets the flag to the low bit of Vy and Vx to Vy >> 1; 8xyE
\* sets the flag to the high bit of Vy and Vx to (Vy << 1) mod 256; the flag
\* is 0 when the bit shifted out is 0, whatever it was before.
C15_ShiftFlags ==
  LET vy == hist.variables1[Y(opcode)]
  IN /\ (Returned /\ Instr(opcode) = \h8000 /\ N(opcode) = 6)
          => /\ vf = Bit(vy, 0)
             /\ variables[X(opcode)] = vy \div 2
     /\ (Returned /\ Instr(opcode) = \h8000 /\ N(opcode) = 14)
          => /\ vf = Bit(vy, 7)
             /\ variables[X(opcode)] = (vy * 2) % 256

\* C16: Fx55 writes memory[I + i] := Vi for i in 0..x and no other memory
\* cell; Fx65 sets Vi := memory[I + i] for i in 0..x and no register Vk
\* with k > x.
C16_RegisterTransfer ==
  [][/\ (proc = "run" /\ CanFetch /\ Instr(Fetched) = \hF000
           /\ NN(Fetched) = \h55 /\ index + X(Fetched) < MemSize)
          => memory' = [a \in 0..(MemSize - 1) |->
                          IF a - index \in 0..X(Fetched)
                            THEN variables[a - index] ELSE memory[a]]
     /\ (proc = "run" /\ CanFetch /\ Instr(Fetched) = \hF000
           /\ NN(Fetched) = \h65 /\ index + X(Fetched) < MemSize)
          => variables' = [k \in 0..15 |->
                             IF k <= X(Fetched)
                               THEN memory[index + k] ELSE variables[k]]]_vars

\* C20: every cell of the [64][32] pixel buffer holds 0x00 or 0xFF, and only
\* 00E0 and Dxyn change a cell.
TwoValued(px) ==
  \A c \in 0..(Width - 1), r \in 0..(Height - 1) : px[c][r] \in {0, 255}

C20_PixelEncoding ==
  [][/\ TwoValued(pixels) /\ TwoValued(pixels')
     /\ pixels' # pixels
          => /\ proc = "run" /\ CanFetch
             /\ Fetched = \h00E0 \/ IsDraw(Fetched)]_vars

C20_Witness ==
  /\ Returned /\ IsDraw(opcode)
  /\ \E c \in 0..(Width - 1), r \in 0..(Height - 1) :
       hist.pixels1[c][r] = \hFF /\ pixels[c][r] = 0
  /\ \E c \in 0..(Width - 1), r \in 0..(Height - 1) :
       hist.pixels1[c][r] = 0 /\ pixels[c][r] = \hFF

\* C19: whenever an instruction has changed the pixel buffer, the Display is
\* eventually rendered with a buffer equal to the VM's current pixel buffer,
\* also when the program never draws again (00E0, then a jump to itself).
Fresh == display.frame = Shown(pixels)

\* A jump to its own address: the cycle leaves every field of the VM and the
\* Display as it is, so what is not shown in such a state is never shown.
AtRest == proc = "run" /\ CanFetch /\ Fetched = \h1000 + pc

C19_DisplayFreshness == AtRest => Fresh

\* C17: after 3xnn, 4xnn, 5xy0 or 9xy0, PC is the fetch address + 4 when the
\* condition holds (Vx = nn, Vx # nn, Vx = Vy, Vx # Vy) and the fetch
\* address + 2 otherwise, and no register is changed; in both VMs.
IsSkip(op) ==
  \/ Instr(op) \in {\h3000, \h4000}
  \/ Instr(op) \in {\h5000, \h9000} /\ N(op) = 0

Nibble2(op) == (op \div 256) % 16
Nibble3(op) == (op \div 16) % 16

SkipHolds(op, v) ==
  CASE Instr(op) = \h3000 -> v[Nibble2(op)] = op % 256
    [] Instr(op) = \h4000 -> v[Nibble2(op)] # op % 256
    [] Instr(op) = \h5000 -> v[Nibble2(op)] = v[Nibble3(op)]
    [] Instr(op) = \h9000 -> v[Nibble2(op)] # v[Nibble3(op)]

C17_ConditionalSkips ==
  (Returned /\ IsSkip(opcode))
    => /\ pc = Add16(hist.pc1,
                     IF SkipHolds(opcode, hist.variables1) THEN 4 ELSE 2)
       /\ variables = hist.variables1

\* C18: for every opcode the decoded x is the second nibble and y the third
\* nibble, in both VMs, so every index into variables is in 0..15.
C18_Decoding ==
  hist.ran
    => /\ X(opcode) = Nibble2(opcode) /\ Y(opcode) = Nibble3(opcode)
       /\ FlatX(opcode) = Nibble2(opcode) /\ FlatY(opcode) = Nibble3(opcode)
       /\ \A i \in FlatRegUse(opcode) : i \in 0..(NumRegs - 1)

\* The decoder of the first VM alone.
PrimaryDecoding ==
  hist.ran => X(opcode) = Nibble2(opcode) /\ Y(opcode) = Nibble3(opcode)

====
